---- MODULE Spec2Model ----
(***************************************************************************)
(* Text-to-Game Studio: the relay route handler (POST /api/generate-game)  *)
(* and the conversation client (Home), from                                *)
(* src/src/app/api/generate-game/route.ts.                                 *)
(*                                                                         *)
(* Text is modelled as a sequence of units.  A unit is a short literal     *)
(* run of characters ("a", " ", "json", "{", ...); the unit "<fence>"      *)
(* stands for three consecutive backticks.  The operations of the code     *)
(* that look inside text (trim, the fence regex, JSON.parse,               *)
(* JSON.stringify, slice, join) are computed unit by unit.                 *)
(***************************************************************************)
EXTENDS Integers, Sequences, FiniteSets, TLC

\* ------------------------------------------------------------------ bounds

\* Longest conversation a direct caller supplies to the relay.
MaxConv == 7

\* Accepted submissions per client session.
MaxSubmits == 2

\* Submissions of a blank input per client session.
MaxIgnored == 1

\* Accepted submissions per long client session.
MaxLongSubmits == 4

\* ------------------------------------------------------------- text units

Q == "\""
SP == " "
NL == "\n"
\* Three consecutive backticks.
FENCE == "<fence>"
EscNL == "\\n"
EscQ == "\\\""
Whitespace == {SP, NL}
Digits == {"5"}

RECURSIVE Concat(_)
\* Array.prototype.join("") of a sequence of texts.
Concat(ts) ==
  IF ts = <<>> THEN <<>> ELSE Head(ts) \o Concat(Tail(ts))

RECURSIVE JoinWith(_, _)
\* Array.prototype.join(sep) of a sequence of texts.
JoinWith(ts, sep) ==
  IF ts = <<>> THEN <<>>
  ELSE IF Len(ts) = 1 THEN Head(ts)
  ELSE Head(ts) \o sep \o JoinWith(Tail(ts), sep)

RECURSIVE TrimStart(_)
TrimStart(s) ==
  IF s # <<>> /\ Head(s) \in Whitespace THEN TrimStart(Tail(s)) ELSE s

RECURSIVE TrimEnd(_)
TrimEnd(s) ==
  IF s # <<>> /\ s[Len(s)] \in Whitespace
  THEN TrimEnd(SubSeq(s, 1, Len(s) - 1)) ELSE s

\* String.prototype.trim
Trim(s) == TrimEnd(TrimStart(s))

\* Array.prototype.slice(-k): the last k elements, all of them when shorter.
SliceLast(xs, k) ==
  IF Len(xs) <= k THEN xs ELSE SubSeq(xs, Len(xs) - k + 1, Len(xs))

\* ------------------------------------------------------------ JS values

Undefined == [t |-> "undefined", v |-> <<>>]
Null == [t |-> "null", v |-> <<>>]
Str(s) == [t |-> "string", v |-> s]
Num(d) == [t |-> "number", v |-> <<d>>]
Arr(xs) == [t |-> "array", v |-> xs]
\* An object is the sequence of its members, in insertion order.
Obj(ms) == [t |-> "object", v |-> ms]
Member(k, x) == [k |-> k, x |-> x]

Nullish(x) == x.t \in {"undefined", "null"}

\* JS truthiness (Boolean(x)) of the values above.
Truthy(x) ==
  CASE x.t \in {"undefined", "null"} -> FALSE
    [] x.t = "string" -> x.v # <<>>
    [] x.t = "number" -> x.v # <<"0">>
    [] OTHER -> TRUE

RECURSIVE Lookup(_, _, _)
\* The value of the last member named k (JSON.parse keeps the last duplicate).
Lookup(ms, k, i) ==
  IF i = 0 THEN Undefined
  ELSE IF ms[i].k = k THEN ms[i].x
  ELSE Lookup(ms, k, i - 1)

\* x.k for a non-nullish x: own members of an object, undefined otherwise.
GetProp(x, k) ==
  IF x.t = "object" THEN Lookup(x.v, k, Len(x.v)) ELSE Undefined

RECURSIVE ToText(_)
\* String(x), as a template literal converts an interpolated value.
ToText(x) ==
  CASE x.t = "string" -> x.v
    [] x.t = "number" -> x.v
    [] x.t = "undefined" -> <<"undefined">>
    [] x.t = "null" -> <<"null">>
    [] x.t = "object" -> <<"[object Object]">>
    [] x.t = "array" ->
         JoinWith([i \in 1..Len(x.v) |->
                     IF Nullish(x.v[i]) THEN <<>> ELSE ToText(x.v[i])],
                  <<",">>)

\* ------------------------------------------------------- JSON.stringify

EscapeUnit(c) ==
  IF c = NL THEN EscNL ELSE IF c = Q THEN EscQ ELSE c

QuoteText(s) ==
  <<Q>> \o [i \in 1..Len(s) |-> EscapeUnit(s[i])] \o <<Q>>

RECURSIVE JsonStringify(_)
RECURSIVE StringifyMembers(_)
\* The members of an object, undefined-valued ones left out.
StringifyMembers(ms) ==
  IF ms = <<>> THEN <<>>
  ELSE IF Head(ms).x.t = "undefined" THEN StringifyMembers(Tail(ms))
  ELSE <<QuoteText(Head(ms).k) \o <<":">> \o JsonStringify(Head(ms).x)>>
         \o StringifyMembers(Tail(ms))

JsonStringify(x) ==
  CASE x.t = "string" -> QuoteText(x.v)
    [] x.t = "number" -> x.v
    [] x.t \in {"null", "undefined"} -> <<"null">>
    [] x.t = "array" ->
         <<"[">> \o JoinWith([i \in 1..Len(x.v) |-> JsonStringify(x.v[i])],
                             <<",">>) \o <<"]">>
    [] x.t = "object" ->
         <<"{">> \o JoinWith(StringifyMembers(x.v), <<",">>) \o <<"}">>

\* ----------------------------------------------------------- JSON.parse

ParseFail == [ok |-> FALSE, v |-> Undefined, i |-> 0]
ParseOk(x, i) == [ok |-> TRUE, v |-> x, i |-> i]

RECURSIVE SkipWs(_, _)
SkipWs(t, i) ==
  IF i <= Len(t) /\ t[i] \in Whitespace THEN SkipWs(t, i + 1) ELSE i

RECURSIVE ScanString(_, _, _)
\* The text of a string literal whose opening quote precedes position i.
ScanString(t, i, acc) ==
  IF i > Len(t) THEN ParseFail
  ELSE IF t[i] = Q THEN ParseOk(Str(acc), i + 1)
  ELSE IF t[i] = NL THEN ParseFail
  ELSE IF t[i] = EscNL THEN ScanString(t, i + 1, Append(acc, NL))
  ELSE IF t[i] = EscQ THEN ScanString(t, i + 1, Append(acc, Q))
  ELSE ScanString(t, i + 1, Append(acc, t[i]))

RECURSIVE ParseValue(_, _)
RECURSIVE ParseMembers(_, _, _)
RECURSIVE ParseElements(_, _, _)

\* The members of an object from position i on, a member expected at i.
ParseMembers(t, i, acc) ==
  IF i > Len(t) \/ t[i] # Q THEN ParseFail
  ELSE LET key == ScanString(t, i + 1, <<>>) IN
    IF ~key.ok THEN ParseFail
    ELSE LET c == SkipWs(t, key.i) IN
      IF c > Len(t) \/ t[c] # ":" THEN ParseFail
      ELSE LET val == ParseValue(t, SkipWs(t, c + 1)) IN
        IF ~val.ok THEN ParseFail
        ELSE LET e == SkipWs(t, val.i)
                 ms == Append(acc, Member(key.v.v, val.v)) IN
          IF e > Len(t) THEN ParseFail
          ELSE IF t[e] = "}" THEN ParseOk(Obj(ms), e + 1)
          ELSE IF t[e] = "," THEN ParseMembers(t, SkipWs(t, e + 1), ms)
          ELSE ParseFail

\* The elements of an array from position i on, an element expected at i.
ParseElements(t, i, acc) ==
  LET val == ParseValue(t, i) IN
    IF ~val.ok THEN ParseFail
    ELSE LET e == SkipWs(t, val.i)
             xs == Append(acc, val.v) IN
      IF e > Len(t) THEN ParseFail
      ELSE IF t[e] = "]" THEN ParseOk(Arr(xs), e + 1)
      ELSE IF t[e] = "," THEN ParseElements(t, SkipWs(t, e + 1), xs)
      ELSE ParseFail

ParseValue(t, i) ==
  IF i > Len(t) THEN ParseFail
  ELSE IF t[i] = Q THEN ScanString(t, i + 1, <<>>)
  ELSE IF t[i] = "null" THEN ParseOk(Null, i + 1)
  ELSE IF t[i] \in Digits THEN ParseOk(Num(t[i]), i + 1)
  ELSE IF t[i] = "{" THEN
    LET j == SkipWs(t, i + 1) IN
      IF j <= Len(t) /\ t[j] = "}" THEN ParseOk(Obj(<<>>), j + 1)
      ELSE ParseMembers(t, j, <<>>)
  ELSE IF t[i] = "[" THEN
    LET j == SkipWs(t, i + 1) IN
      IF j <= Len(t) /\ t[j] = "]" THEN ParseOk(Arr(<<>>), j + 1)
      ELSE ParseElements(t, j, <<>>)
  ELSE ParseFail

\* JSON.parse(t): [ok |-> FALSE] stands for the SyntaxError it throws.
JsonParse(t) ==
  LET val == ParseValue(t, SkipWs(t, 1)) IN
    IF val.ok /\ SkipWs(t, val.i) > Len(t) THEN [ok |-> TRUE, v |-> val.v]
    ELSE [ok |-> FALSE, v |-> Undefined]

\* ------------------------------------------------------------- state

VARIABLES
  apiKey,           \* anthropic.apiKey is set (process.env.ANTHROPIC_API_KEY)
  request,          \* relay: the body text of the request being handled
  rpc,              \* relay: "idle", "pending", "awaitModel" or "done"
  bodyRead,         \* relay: request.json() was called in this invocation
  modelCalls,       \* relay: anthropic.messages.create calls of this invocation
  history,          \* relay: POST's local history
  userInstruction,  \* relay: POST's local userInstruction, as sent to the model
  modelResult,      \* relay: what messages.create settled with
  outcome,          \* relay: the Response returned, or the error thrown
  messages,         \* client: useState messages
  input,            \* client: useState input
  gameHtml,         \* client: useState gameHtml
  isStreaming,      \* client: useState isStreaming
  error,            \* client: useState error
  outstanding,      \* client: fetch calls not yet settled
  submits,          \* client: submissions accepted so far
  ignored,          \* client: submissions of a blank input so far
  successes         \* client: successful responses received so far

relayVars == <<request, rpc, bodyRead, modelCalls, history, userInstruction,
               modelResult, outcome>>
clientVars == <<messages, input, gameHtml, isStreaming, error, outstanding,
                submits, ignored, successes>>
vars == <<apiKey, relayVars, clientVars>>

\* ------------------------------------------------------------ the relay

HistoryWindow == 6

ApiKeyError == <<"Missing ANTHROPIC_API_KEY environment variable.">>
InvalidJsonError == <<"Invalid JSON payload.">>
PromptRequiredError == <<"Prompt is required.">>
EmptyResponseError == <<"Empty response from Anthropic.">>
ParseFailedError == <<"Failed to parse model output.">>
MissingFieldsError == <<"Model response missing required fields.">>
GenerationFailedError == <<"Generation failed.">>
Directive == <<"Respond with JSON as specified. Narrate reasoning inside the \"reply\" field, focusing on gameplay summary, controls, and iteration ideas.">>

NoRequest == <<"<no request>">>
NoResult == [kind |-> "none", content |-> <<>>, isError |-> FALSE, message |-> <<>>]
\* messages.create resolved with a message whose content is these blocks.
Resolved(content) ==
  [kind |-> "resolve", content |-> content, isError |-> FALSE, message |-> <<>>]
\* messages.create rejected: an Error with this message, or another value.
Rejected(isError, message) ==
  [kind |-> "reject", content |-> <<>>, isError |-> isError, message |-> message]
TextBlock(text) == [type |-> "text", text |-> text]
OtherBlock == [type |-> "tool_use", text |-> <<>>]

NoOutcome == [kind |-> "none", status |-> 0, body |-> <<>>]
\* Response.json(data, {status}): the body is JSON.stringify(data).
JsonResponse(data, status) ==
  [kind |-> "response", status |-> status, body |-> JsonStringify(data)]
\* The handler ended by throwing instead of returning a Response.
Thrown == [kind |-> "throw", status |-> 0, body |-> <<"TypeError">>]
ErrorBody(message) == Obj(<<Member(<<"error">>, Str(message))>>)

\* Mutant: the credential check never fires.
CredentialMissing_Never == FALSE

Value(x) == [threw |-> FALSE, v |-> x]
Throws == [threw |-> TRUE, v |-> Undefined]

\* if (!anthropic.apiKey)
CredentialMissing == ~apiKey

\* Mutant: body?.prompt, the trim left out.
PromptOf_NoTrim(body) ==
  IF Nullish(body) THEN Value(Undefined)
  ELSE LET p == GetProp(body, <<"prompt">>) IN
    IF Nullish(p) THEN Value(Undefined)
    ELSE IF p.t = "string" THEN Value(Str(p.v))
    ELSE Throws

\* body?.prompt?.trim(): a prompt that is neither nullish nor a string has no
\* trim method, and the call throws a TypeError.
PromptOf(body) ==
  IF Nullish(body) THEN Value(Undefined)
  ELSE LET p == GetProp(body, <<"prompt">>) IN
    IF Nullish(p) THEN Value(Undefined)
    ELSE IF p.t = "string" THEN Value(Str(Trim(p.v)))
    ELSE Throws

SpeakerOf(role) ==
  IF role = Str(<<"user">>) THEN <<"Player">>
  ELSE IF role = Str(<<"assistant">>) THEN <<"Architect">>
  ELSE <<"System">>

\* `${speaker}: ${entry.content}`
TranscriptLine(entry) ==
  SpeakerOf(GetProp(entry, <<"role">>)) \o <<":", SP>>
    \o ToText(GetProp(entry, <<"content">>))

\* Mutant: slice(0, 6), the first entries instead of the last.
RecentEntries_First(conversation) ==
  IF Nullish(conversation) THEN <<>>
  ELSE IF Len(conversation.v) <= HistoryWindow THEN conversation.v
  ELSE SubSeq(conversation.v, 1, HistoryWindow)

\* The entries the transcript is built from: (body.conversation ?? []).slice(-6)
RecentEntries(conversation) ==
  IF Nullish(conversation) THEN <<>>
  ELSE SliceLast(conversation.v, HistoryWindow)

\* (body.conversation ?? []).slice(-6).map(...).join("\n"): a conversation that
\* is no array has no slice or no map, and reading entry.role of a nullish
\* entry throws.
HistoryOf(body) ==
  LET conversation == GetProp(body, <<"conversation">>) IN
    IF ~Nullish(conversation) /\ conversation.t # "array" THEN Throws
    ELSE LET entries == RecentEntries(conversation) IN
      IF \E i \in 1..Len(entries) : Nullish(entries[i]) THEN Throws
      ELSE Value(JoinWith([i \in 1..Len(entries) |-> TranscriptLine(entries[i])],
                          <<NL>>))

\* Mutant: the parts are joined without filter(Boolean).
UserInstructionOf_NoFilter(hist, prompt) ==
  JoinWith(<<IF hist # <<>> THEN <<"Conversation so far:", NL>> \o hist
             ELSE <<>>,
             <<"Latest request:", NL>> \o prompt,
             Directive>>,
           <<NL, NL>>)

\* [...].filter(Boolean).join("\n\n")
UserInstructionOf(hist, prompt) ==
  JoinWith(
    SelectSeq(<<IF hist # <<>> THEN <<"Conversation so far:", NL>> \o hist
                ELSE <<>>,
                <<"Latest request:", NL>> \o prompt,
                Directive>>,
              LAMBDA part : part # <<>>),
    <<NL, NL>>)

\* response.content.map(c => c.type === "text" ? c.text : "").join("").trim()
TextContentOf(content) ==
  Trim(Concat([i \in 1..Len(content) |->
                 IF content[i].type = "text" THEN content[i].text ELSE <<>>]))

RECURSIVE RemoveFences(_)
\* value.replace(/```json|```/g, "")
RemoveFences(value) ==
  IF value = <<>> THEN <<>>
  ELSE IF Head(value) = FENCE THEN
    IF Len(value) >= 2 /\ value[2] = "json"
    THEN RemoveFences(Tail(Tail(value)))
    ELSE RemoveFences(Tail(value))
  ELSE <<Head(value)>> \o RemoveFences(Tail(value))

\* safeJsonParse: the parsed value, Null for its null return.
SafeJsonParse(value) ==
  LET direct == JsonParse(value) IN
    IF direct.ok THEN direct.v
    ELSE LET retry == JsonParse(Trim(RemoveFences(value))) IN
      IF retry.ok THEN retry.v ELSE Null

\* Mutant: only the reply is required.
RequiredFieldsMissing_ReplyOnly(parsed) ==
  ~Truthy(GetProp(parsed, <<"reply">>))

\* if (!parsed.reply || !parsed.html)
RequiredFieldsMissing(parsed) ==
  ~Truthy(GetProp(parsed, <<"reply">>)) \/ ~Truthy(GetProp(parsed, <<"html">>))

\* Mutant: the reply is returned as the game too.
SuccessBody_ReplyAsGame(parsed) ==
  Obj(<<Member(<<"reply">>, GetProp(parsed, <<"reply">>)),
        Member(<<"game">>, GetProp(parsed, <<"reply">>))>>)

\* { reply: parsed.reply, game: parsed.html }
SuccessBody(parsed) ==
  Obj(<<Member(<<"reply">>, GetProp(parsed, <<"reply">>)),
        Member(<<"game">>, GetProp(parsed, <<"html">>))>>)

\* error instanceof Error ? error.message : "Generation failed."
CaughtMessage(isError, message) ==
  IF isError THEN message ELSE GenerationFailedError

\* The handler's try block once messages.create has resolved.
Generated(content) ==
  LET textContent == TextContentOf(content) IN
    IF textContent = <<>> THEN JsonResponse(ErrorBody(CaughtMessage(TRUE, EmptyResponseError)), 500)
    ELSE LET parsed == SafeJsonParse(textContent) IN
      IF ~Truthy(parsed)
      THEN JsonResponse(ErrorBody(CaughtMessage(TRUE, ParseFailedError)), 500)
      ELSE IF RequiredFieldsMissing(parsed)
      THEN JsonResponse(ErrorBody(CaughtMessage(TRUE, MissingFieldsError)), 500)
      ELSE JsonResponse(SuccessBody(parsed), 200)

\* A new invocation of POST: its locals are fresh.
Invoke(raw) ==
  /\ request' = raw
  /\ rpc' = "pending"
  /\ bodyRead' = FALSE
  /\ modelCalls' = 0
  /\ history' = <<>>
  /\ userInstruction' = <<>>
  /\ modelResult' = NoResult
  /\ outcome' = NoOutcome

\* The invocation is over and its locals are gone.
Release ==
  /\ request' = NoRequest
  /\ rpc' = "idle"
  /\ bodyRead' = FALSE
  /\ modelCalls' = 0
  /\ history' = <<>>
  /\ userInstruction' = <<>>
  /\ modelResult' = NoResult
  /\ outcome' = NoOutcome

Return(res) ==
  /\ rpc' = "done"
  /\ outcome' = res

\* POST, up to its return or to the await of messages.create.
PostStart ==
  /\ rpc = "pending"
  /\ UNCHANGED <<apiKey, request, modelResult, clientVars>>
  /\ IF CredentialMissing
     THEN /\ Return(JsonResponse(ErrorBody(ApiKeyError), 500))
          /\ UNCHANGED <<bodyRead, modelCalls, history, userInstruction>>
     ELSE
       LET json == JsonParse(request)
           prompt == PromptOf(json.v)
           hist == HistoryOf(json.v)
       IN
         /\ bodyRead' = TRUE
         /\ IF ~json.ok
            THEN /\ Return(JsonResponse(ErrorBody(InvalidJsonError), 400))
                 /\ UNCHANGED <<modelCalls, history, userInstruction>>
            ELSE IF prompt.threw
            THEN /\ Return(Thrown)
                 /\ UNCHANGED <<modelCalls, history, userInstruction>>
            ELSE IF ~Truthy(prompt.v)
            THEN /\ Return(JsonResponse(ErrorBody(PromptRequiredError), 400))
                 /\ UNCHANGED <<modelCalls, history, userInstruction>>
            ELSE IF hist.threw
            THEN /\ Return(Thrown)
                 /\ UNCHANGED <<modelCalls, history, userInstruction>>
            ELSE /\ history' = hist.v
                 /\ userInstruction' = UserInstructionOf(hist.v, prompt.v.v)
                 /\ modelCalls' = modelCalls + 1
                 /\ rpc' = "awaitModel"
                 /\ UNCHANGED outcome

\* Mutant: a failed generation is retried once before the handler gives up.
PostResume_Retry(result) ==
  /\ rpc = "awaitModel"
  /\ modelResult' = result
  /\ LET res == IF result.kind = "resolve" THEN Generated(result.content)
                ELSE JsonResponse(
                       ErrorBody(CaughtMessage(result.isError, result.message)), 500)
     IN IF res.status # 200 /\ modelCalls < 2
        THEN /\ modelCalls' = modelCalls + 1
             /\ UNCHANGED <<rpc, outcome>>
        ELSE /\ Return(res)
             /\ UNCHANGED modelCalls
  /\ UNCHANGED <<apiKey, request, bodyRead, history, userInstruction, clientVars>>

\* POST, from the settling of messages.create to its return.
PostResume(result) ==
  /\ rpc = "awaitModel"
  /\ modelResult' = result
  /\ Return(IF result.kind = "resolve" THEN Generated(result.content)
            ELSE JsonResponse(
                   ErrorBody(CaughtMessage(result.isError, result.message)), 500))
  /\ UNCHANGED <<apiKey, request, bodyRead, modelCalls, history,
                 userInstruction, clientVars>>

\* ------------------------------------------------- the relay's callers

Entry(role, content) ==
  Obj(<<Member(<<"role">>, Str(<<role>>)), Member(<<"content">>, content)>>)

ConvRoles == <<"user", "assistant", "system">>
ConvWords == <<"m1", "m2", "m3", "m4", "m5", "m6", "m7", "m8", "m9", "m10">>

\* The i-th entry of the sample conversation: roles in rotation, each content
\* its own word, every fourth one with a line break inside.
SampleEntry(i) ==
  Entry(ConvRoles[((i - 1) % 3) + 1],
        Str(IF i % 4 = 0 THEN <<ConvWords[i], NL, "b">> ELSE <<ConvWords[i]>>))

SampleConversation(n) == [i \in 1..n |-> SampleEntry(i)]

RequestBody(prompt, conversation) ==
  Obj(<<Member(<<"prompt">>, prompt), Member(<<"conversation">>, conversation)>>)

BlankPrompts == {Undefined, Null, Str(<<>>), Str(<<SP>>), Str(<<NL, SP>>)}
GoodPrompts == {Str(<<"a">>), Str(<<SP, "a", SP, "b", NL>>)}
OddPrompts == {Num("5"), Obj(<<>>), Arr(<<>>)}
Prompts == BlankPrompts \cup GoodPrompts \cup OddPrompts

Conversations ==
  {Undefined, Null, Str(<<"a">>), Num("5"), Obj(<<>>)}
    \cup {Arr(SampleConversation(n)) : n \in 0..MaxConv}
    \cup {Arr(<<Null>> \o SampleConversation(n)) : n \in {HistoryWindow - 1, HistoryWindow}}
    \cup {Arr(<<Entry("user", Str(<<"a">>)), Entry("narrator", Null),
                Str(<<"a">>), Obj(<<>>), Entry("assistant", Num("5"))>>)}

\* What a caller of the endpoint may send: the JSON of any of these bodies, the
\* JSON of a body that is no object, or text that is no JSON.
DirectRequests ==
  {JsonStringify(RequestBody(p, c)) :
     p \in Prompts, c \in {Undefined, Arr(SampleConversation(2))}}
    \cup {JsonStringify(RequestBody(Str(<<SP, "a", SP, "b", NL>>), c)) :
            c \in Conversations}
    \cup {JsonStringify(b) : b \in {Null, Num("5"), Arr(<<>>), Str(<<"a">>), Obj(<<>>)}}
    \cup {<<>>, <<"{">>, <<"a", SP, "b">>,
          <<SP, "{", Q, "prompt", Q, SP, ":", SP, Q, "a", Q, "}", NL>>}

\* ------------------------------------------------- the external model

Html == <<"<html>", "a", "</html>">>

\* Encodings of an object with the members ms: minified, and pretty-printed.
Minified(ms) == JsonStringify(Obj(ms))
Pretty(ms) ==
  <<"{", NL>>
    \o JoinWith([i \in 1..Len(ms) |->
                   <<SP>> \o QuoteText(ms[i].k) \o <<":", SP>>
                     \o JsonStringify(ms[i].x)],
                <<",", NL>>)
    \o <<NL, "}">>

\* {reply: r, html: h} pairs of non-empty texts.
GoodPairs ==
  {<<<<"a">>, Html>>,
   <<<<"a", SP, FENCE, "json", "b", FENCE, NL, Q, "b", Q>>, Html>>,
   <<<<"a">>, <<"<html>", FENCE, "</html>">>>>,
   <<<<"b">>, <<SP>>>>}

PairMembers(pair) ==
  <<Member(<<"reply">>, Str(pair[1])), Member(<<"html">>, Str(pair[2]))>>

\* Well-formed model outputs: JSON texts of {reply, html} with both non-empty.
GoodTexts ==
  {Minified(PairMembers(pair)) : pair \in GoodPairs}
    \cup {Pretty(PairMembers(pair)) : pair \in GoodPairs}
    \cup {Minified(<<Member(<<"html">>, Str(Html)), Member(<<"extra">>, Null),
                     Member(<<"reply">>, Str(<<"a">>))>>)}

\* JSON texts that lack a usable reply or html, or are no object.
PoorTexts ==
  {Minified(<<Member(<<"reply">>, Str(<<"a">>))>>),
   Minified(<<Member(<<"html">>, Str(Html))>>),
   Minified(<<Member(<<"reply">>, Str(<<>>)), Member(<<"html">>, Str(Html))>>),
   Minified(<<Member(<<"reply">>, Str(<<"a">>)), Member(<<"html">>, Str(<<>>))>>),
   Minified(<<Member(<<"reply">>, Str(<<"a">>)), Member(<<"html">>, Null)>>),
   Minified(<<Member(<<"reply">>, Str(<<"a">>)), Member(<<"game">>, Str(Html))>>),
   Minified(<<>>),
   <<"null">>, <<Q, Q>>, <<Q, "a", Q>>, <<"[", "]">>, <<"5">>}

FenceTags == {<<>>, <<"json">>, <<"js">>}

\* text inside a fenced block whose opening fence carries the tag.
Fenced(tag, text) == <<FENCE>> \o tag \o <<NL>> \o text \o <<NL, FENCE>>

FencedTexts ==
  {Fenced(tag, text) : tag \in FenceTags, text \in GoodTexts \cup PoorTexts}

JunkTexts ==
  {<<>>, <<SP, NL>>, <<"a", SP, "b">>, <<FENCE, "json", NL, FENCE>>,
   <<"a", NL>> \o Fenced(<<"json">>, Minified(PairMembers(<<<<"a">>, Html>>))),
   <<"{", Q, "reply", Q, ":", Q, "a">>}

ModelTexts == GoodTexts \cup PoorTexts \cup FencedTexts \cup JunkTexts

\* What messages.create may settle with: one text block, the text split over
\* blocks around a block of another type, no block, or a rejection.
ModelResults ==
  {Resolved(<<TextBlock(text)>>) : text \in ModelTexts}
    \cup {Resolved(<<TextBlock(<<NL>> \o SubSeq(text, 1, 2)), OtherBlock,
                     TextBlock(SubSeq(text, 3, Len(text)) \o <<SP>>)>>) :
            text \in {t \in GoodTexts \cup PoorTexts : Len(t) >= 2}}
    \cup {Resolved(<<>>), Resolved(<<OtherBlock>>)}
    \cup {Rejected(TRUE, <<"529 overloaded_error">>), Rejected(FALSE, <<"a">>)}

\* A caller other than the client posts a request.
DirectRequest ==
  /\ rpc = "idle"
  /\ \E raw \in DirectRequests : Invoke(raw)
  /\ UNCHANGED <<apiKey, clientVars>>

\* The model call of a direct request settles.
DirectModelSettles ==
  \E result \in ModelResults : PostResume(result)

\* The direct caller takes the response.
DirectReceive ==
  /\ rpc = "done"
  /\ Release
  /\ UNCHANGED <<apiKey, clientVars>>

\* ----------------------------------------------------------- the client

Placeholder == <<"<html>", "Text-to-Game Preview", "</html>">>
FetchError == <<"Failed to fetch">>

\* What the user may type into the textarea.
Inputs == {<<>>, <<SP>>, <<SP, "a", NL>>, <<"b">>}

StatusText(status) ==
  CASE status = 200 -> "200" [] status = 400 -> "400" [] status = 500 -> "500"

\* Mutant: every message is given the role of the user.
Message_AllUser(role, content, fresh) ==
  [id |-> fresh, role |-> "user", content |-> content, createdAt |-> fresh]

\* crypto.randomUUID() and Date.now(): a token no earlier message carries.
Message(role, content, fresh) ==
  [id |-> fresh, role |-> role, content |-> content, createdAt |-> fresh]

\* Mutant: the messages of before the submission are sent.
WireConversation_Stale(ms) ==
  Arr([i \in 1..(Len(ms) - 1) |-> Entry(ms[i].role, ms[i].content)])

\* optimisticState.map(({ role, content }) => ({ role, content }))
WireConversation(ms) ==
  Arr([i \in 1..Len(ms) |-> Entry(ms[i].role, ms[i].content)])

\* Mutant: the button is never disabled.
SubmitEnabled_Always == TRUE

\* The submit Button's disabled={isStreaming}; the textarea submits nothing.
SubmitEnabled == ~isStreaming

\* previewSource: gameHtml?.trim() ? gameHtml : the placeholder document.
PreviewSource ==
  IF Nullish(gameHtml) THEN Placeholder
  ELSE IF gameHtml.t # "string" THEN <<"TypeError">>
  ELSE IF Trim(gameHtml.v) # <<>> THEN gameHtml.v
  ELSE Placeholder

\* The Textarea's onChange: setInput(event.target.value), the value one of texts.
TypeOf(texts) ==
  /\ \E text \in texts : input' = text
  /\ UNCHANGED <<apiKey, relayVars, messages, gameHtml, isStreaming, error,
                 outstanding, submits, ignored, successes>>

Type == TypeOf(Inputs)

\* Mutant: the submission leaves the recorded error as it is.
ErrorOnSubmit_Kept == error

\* setError(null)
ErrorOnSubmit == Null

\* handleSubmit up to its await of fetch: the optimistic update and the request.
Accept ==
  LET userMessage == Message("user", Str(Trim(input)), submits + successes + 1)
      optimisticState == Append(messages, userMessage)
  IN
    /\ messages' = optimisticState
    /\ input' = <<>>
    /\ isStreaming' = TRUE
    /\ error' = ErrorOnSubmit
    /\ outstanding' = outstanding + 1
    /\ submits' = submits + 1
    /\ Invoke(JsonStringify(RequestBody(userMessage.content,
                                        WireConversation(optimisticState))))
    /\ UNCHANGED <<apiKey, gameHtml, ignored, successes>>

\* Mutant: if (!input) return, the trim left out.
BlankInput_NoTrim(text) == text = <<>>

\* if (!input.trim()) return
BlankInput(text) == Trim(text) = <<>>

\* The form's onSubmit, raised by the submit button, in a session of at most
\* limit accepted submissions.
SubmitWithin(limit) ==
  /\ SubmitEnabled
  /\ IF BlankInput(input)
     THEN /\ ignored < MaxIgnored
          /\ ignored' = ignored + 1
          /\ UNCHANGED <<apiKey, relayVars, messages, input, gameHtml,
                         isStreaming, error, outstanding, submits, successes>>
     ELSE submits < limit /\ Accept

Submit == SubmitWithin(MaxSubmits)

\* The model outputs the client's sessions are run against.
ClientModelResults ==
  {Resolved(<<TextBlock(Minified(PairMembers(<<<<"a">>, Html>>)))>>),
   Resolved(<<TextBlock(Fenced(<<"json">>,
                               Pretty(PairMembers(<<<<"b">>, Html>>))))>>),
   Resolved(<<TextBlock(Minified(PairMembers(<<<<"b">>, <<SP>>>>)))>>),
   Resolved(<<TextBlock(Minified(<<Member(<<"reply">>, Str(<<"a">>))>>))>>),
   Rejected(TRUE, <<"529 overloaded_error">>)}

\* The model call of the client's request settles with one of results.
SettlesWith(results) ==
  /\ outstanding > 0
  /\ \E result \in results : PostResume(result)

ClientModelSettles == SettlesWith(ClientModelResults)

\* Mutant: the reply is appended to the messages captured before the submission.
AppendAssistant_Stale(prev, assistantMessage) ==
  Append(SubSeq(prev, 1, Len(prev) - 1), assistantMessage)

\* setMessages((prev) => [...prev, assistantMessage])
AppendAssistant(prev, assistantMessage) == Append(prev, assistantMessage)

\* Mutant: the relay's field name is read from the model's output name.
GameOf_Html(data) == GetProp(data, <<"html">>)

\* setGameHtml(data.game)
GameOf(data) == GetProp(data, <<"game">>)

\* Mutant: setIsStreaming(false) at the end of the try block, not in a finally.
StreamingAfter_NoFinally(ok) == ~ok

\* finally { setIsStreaming(false) }: isStreaming once handleSubmit ends,
\* whether or not (ok) the try block ran to its end.
StreamingAfter(ok) == FALSE

\* handleSubmit from the resolving of fetch to its end.
ClientReceive ==
  /\ outstanding > 0
  /\ rpc = "done"
  /\ LET ok == outcome.kind = "response" /\ outcome.status \in 200..299
         status == IF outcome.kind = "response" THEN outcome.status ELSE 500
         data == JsonParse(outcome.body)
     IN
       IF ~ok
       THEN /\ error' = Str(<<"Generation failed (", StatusText(status), ")">>)
            /\ UNCHANGED <<messages, gameHtml, successes>>
       ELSE IF ~data.ok
       THEN /\ error' = Str(<<"Unexpected token">>)
            /\ UNCHANGED <<messages, gameHtml, successes>>
       ELSE /\ messages' = AppendAssistant(messages,
                            Message("assistant", GetProp(data.v, <<"reply">>),
                                    submits + successes + 1))
            /\ gameHtml' = GameOf(data.v)
            /\ successes' = successes + 1
            /\ UNCHANGED error
  /\ isStreaming' = StreamingAfter(outcome.kind = "response"
                                   /\ outcome.status \in 200..299
                                   /\ JsonParse(outcome.body).ok)
  /\ outstanding' = outstanding - 1
  /\ Release
  /\ UNCHANGED <<apiKey, input, submits, ignored>>

\* fetch rejects (the network fails): handleSubmit's catch and finally.
FetchFails ==
  /\ outstanding > 0
  /\ rpc # "idle"
  /\ error' = Str(FetchError)
  /\ isStreaming' = StreamingAfter(FALSE)
  /\ outstanding' = outstanding - 1
  /\ Release
  /\ UNCHANGED <<apiKey, messages, input, gameHtml, submits, ignored, successes>>

Init ==
  /\ apiKey \in BOOLEAN
  /\ request = NoRequest
  /\ rpc = "idle"
  /\ bodyRead = FALSE
  /\ modelCalls = 0
  /\ history = <<>>
  /\ userInstruction = <<>>
  /\ modelResult = NoResult
  /\ outcome = NoOutcome
  /\ messages = <<>>
  /\ input = <<>>
  /\ gameHtml = Str(<<>>)
  /\ isStreaming = FALSE
  /\ error = Null
  /\ outstanding = 0
  /\ submits = 0
  /\ ignored = 0
  /\ successes = 0

RelayNext ==
  \/ DirectRequest
  \/ PostStart
  \/ DirectModelSettles
  \/ DirectReceive

Next ==
  \/ Type
  \/ Submit
  \/ PostStart
  \/ ClientModelSettles
  \/ ClientReceive
  \/ FetchFails

\* A client session against the relay.
Spec == Init /\ [][Next]_vars

\* The relay alone, called with arbitrary requests.
RelaySpec == Init /\ [][RelayNext]_vars

\* A longer session of few inputs and model outputs, whose history outgrows the
\* relay's window.
LongInputs == {<<"b">>, <<SP, "a", NL>>}
LongModelResults ==
  {Resolved(<<TextBlock(Minified(PairMembers(<<<<"a">>, Html>>)))>>),
   Rejected(TRUE, <<"529 overloaded_error">>)}

LongType == TypeOf(LongInputs)
LongSubmit == SubmitWithin(MaxLongSubmits)
LongModelSettles == SettlesWith(LongModelResults)

LongNext ==
  \/ LongType
  \/ LongSubmit
  \/ PostStart
  \/ LongModelSettles
  \/ ClientReceive
  \/ FetchFails

LongSpec == Init /\ [][LongNext]_vars

\* The relay call in flight moves on: POST runs the request it was handed,
\* messages.create settles, the continuation of the awaited fetch runs. Each
\* is the step of PostStart, ClientModelSettles and ClientReceive as rpc shows
\* it, and is enabled whenever rpc has the value it starts from.
PostRuns == rpc = "pending" /\ rpc' \in {"awaitModel", "done"}
ModelSettles == rpc = "awaitModel" /\ rpc' = "done"
FetchResolves == rpc = "done" /\ rpc' = "idle"

\* A client session in which every call made settles.
FairSpec ==
  /\ Spec
  /\ WF_rpc(PostRuns)
  /\ WF_rpc(ModelSettles)
  /\ WF_rpc(FetchResolves)

\* ---------------------------------------------------------------- claims

\* The request in hand, as JSON.parse reads it.
ParsedRequest == JsonParse(request)
RequestPrompt == GetProp(ParsedRequest.v, <<"prompt">>)
RequestConversation == GetProp(ParsedRequest.v, <<"conversation">>)

\* The body of the response in hand, as the receiver's JSON.parse reads it.
ResponseData == JsonParse(outcome.body).v

IsBlank(p) ==
  Nullish(p) \/ (p.t = "string" /\ \A i \in 1..Len(p.v) : p.v[i] \in Whitespace)

\* A response of this status whose body is the single field error: message.
IsErrorResponse(status, message) ==
  /\ outcome.kind = "response"
  /\ outcome.status = status
  /\ ResponseData = Obj(<<Member(<<"error">>, Str(message))>>)

\* A response whose body is one field named error holding a non-empty text.
IsSingleError ==
  /\ outcome.kind = "response"
  /\ ResponseData.t = "object"
  /\ Len(ResponseData.v) = 1
  /\ ResponseData.v[1].k = <<"error">>
  /\ ResponseData.v[1].x.t = "string"
  /\ ResponseData.v[1].x.v # <<>>

IsPrefix(a, b) == Len(a) <= Len(b) /\ SubSeq(b, 1, Len(a)) = a

\* The request in hand carries no usable prompt: its body is no JSON, or the
\* prompt is absent, empty or whitespace-only.
C1_NoPrompt ==
  /\ request # NoRequest
  /\ ~ParsedRequest.ok \/ IsBlank(RequestPrompt)

\* C1 as stated: a request whose prompt is absent, empty or whitespace-only is
\* answered with status 400 and a single error message, and the model is never
\* called for it.
C1_BlankPromptIs400 ==
  C1_NoPrompt =>
    /\ modelCalls = 0
    /\ rpc # "awaitModel"
    /\ rpc = "done" => (outcome.status = 400 /\ IsSingleError)

\* C1 amended: with the credential present, a request whose prompt is absent,
\* empty or whitespace-only is answered with status 400 and a single error
\* message ("Prompt is required.", or "Invalid JSON payload." for a body that
\* is no JSON); with the credential absent it is answered with the status 500
\* configuration error; in both cases the model is never called for it.
C1_BlankPromptRejected ==
  C1_NoPrompt =>
    /\ modelCalls = 0
    /\ rpc # "awaitModel"
    /\ rpc = "done" =>
         IF ~apiKey THEN IsErrorResponse(500, ApiKeyError)
         ELSE IF ParsedRequest.ok THEN IsErrorResponse(400, PromptRequiredError)
         ELSE IsErrorResponse(400, InvalidJsonError)

\* A whitespace-only prompt was rejected with status 400.
C1_Witness ==
  /\ rpc = "done"
  /\ apiKey
  /\ ParsedRequest.ok
  /\ RequestPrompt.t = "string"
  /\ RequestPrompt.v # <<>>
  /\ IsBlank(RequestPrompt)
  /\ outcome.status = 400

\* C2: at most one relay call is outstanding, and while one is outstanding no
\* step appends a user message or sends a request.
C2_SingleOutstanding ==
  /\ [](outstanding <= 1)
  /\ [][outstanding > 0 =>
          /\ submits' = submits
          /\ outstanding' <= outstanding
          /\ \A i \in 1..Len(messages') :
               i > Len(messages) => messages'[i].role # "user"]_vars

\* A call is pending while the textarea holds a submittable text.
C2_Witness ==
  /\ isStreaming
  /\ outstanding = 1
  /\ Trim(input) # <<>>
  /\ submits < MaxSubmits

\* The conversation entries have a known role and a text as content.
C3_WellFormed(entries) ==
  \A i \in 1..Len(entries) :
    /\ GetProp(entries[i], <<"role">>).t = "string"
    /\ GetProp(entries[i], <<"role">>).v \in {<<"user">>, <<"assistant">>, <<"system">>}
    /\ GetProp(entries[i], <<"content">>).t = "string"

C3_Label(role) ==
  CASE role = <<"user">> -> "Player"
    [] role = <<"assistant">> -> "Architect"
    [] role = <<"system">> -> "System"

C3_Line(entry) ==
  <<C3_Label(GetProp(entry, <<"role">>).v), ":", SP>>
    \o GetProp(entry, <<"content">>).v

RECURSIVE C3_Lines(_, _)
\* The lines of entries i.. in order, a line break between two of them.
C3_Lines(entries, i) ==
  IF i > Len(entries) THEN <<>>
  ELSE C3_Line(entries[i])
         \o (IF i < Len(entries) THEN <<NL>> ELSE <<>>)
         \o C3_Lines(entries, i + 1)

C3_Min(a, b) == IF a <= b THEN a ELSE b

\* C3: the transcript sent for a conversation of n entries is the labelled
\* lines of its last min(n, 6) entries, oldest first, and nothing of an earlier
\* entry.
C3_TranscriptIsLastSix ==
  (modelCalls = 1 /\ RequestConversation.t = "array"
     /\ C3_WellFormed(RequestConversation.v)) =>
    LET entries == RequestConversation.v
        n == Len(entries)
        k == C3_Min(n, 6)
    IN
      /\ history = C3_Lines([i \in 1..k |-> entries[n - k + i]], 1)
      /\ \A i \in 1..(n - k) :
           \A j \in 1..Len(history) :
             history[j] # GetProp(entries[i], <<"content">>).v[1]

\* A transcript was built from a conversation of more than six entries.
C3_Witness ==
  /\ modelCalls = 1
  /\ RequestConversation.t = "array"
  /\ C3_WellFormed(RequestConversation.v)
  /\ Len(RequestConversation.v) > 6

\* C4: every invocation ends with a response: status 200 with {reply, game},
\* or status 400 or 500 with a single error field; nothing is thrown.
C4_AlwaysAResponse ==
  rpc = "done" =>
    /\ outcome.kind = "response"
    /\ \/ /\ outcome.status = 200
          /\ ResponseData.t = "object"
          /\ [i \in 1..Len(ResponseData.v) |-> ResponseData.v[i].k]
               = <<<<"reply">>, <<"game">>>>
       \/ /\ outcome.status \in {400, 500}
          /\ IsSingleError

\* The value the handler's safeJsonParse call yields for the model's output.
ParsedOutput == SafeJsonParse(TextContentOf(modelResult.content))

NonEmpty(x) == ~Nullish(x) /\ x # Str(<<>>)

\* C5: a success response is returned only when the parsed output has a
\* non-empty reply and a non-empty html; a parsed object lacking either is
\* answered with the status 500 incomplete-response error and nothing else.
C5_NoPartialResult ==
  (rpc = "done" /\ modelResult.kind = "resolve") =>
    /\ outcome.status = 200 =>
         /\ NonEmpty(GetProp(ParsedOutput, <<"reply">>))
         /\ NonEmpty(GetProp(ParsedOutput, <<"html">>))
    /\ (/\ ParsedOutput.t = "object"
        /\ \/ ~NonEmpty(GetProp(ParsedOutput, <<"reply">>))
           \/ ~NonEmpty(GetProp(ParsedOutput, <<"html">>)))
         => IsErrorResponse(500, MissingFieldsError)

\* The model's output had a reply and no html, and the handler answered 500.
C5_Witness ==
  /\ rpc = "done"
  /\ modelResult.kind = "resolve"
  /\ ParsedOutput.t = "object"
  /\ NonEmpty(GetProp(ParsedOutput, <<"reply">>))
  /\ GetProp(ParsedOutput, <<"html">>) = Undefined
  /\ outcome.status = 500

\* C6: a valid {reply, html} JSON text inside a fenced block, with any tag or
\* none on the opening fence, is answered as the same text unfenced is.
C6_FencedLikeUnfenced ==
  \A tag \in FenceTags :
    \A text \in GoodTexts :
      (rpc = "done" /\ modelResult = Resolved(<<TextBlock(Fenced(tag, text))>>))
        => outcome = Generated(<<TextBlock(text)>>)

\* The text of the model's output: its text blocks, concatenated.
C7_Output ==
  Concat([i \in 1..Len(modelResult.content) |->
            IF modelResult.content[i].type = "text"
            THEN modelResult.content[i].text ELSE <<>>])

\* C7: when the model's output is JSON for {reply: r, html: h} with r and h
\* non-empty, the response is status 200 with exactly {reply: r, game: h}.
C7_RoundTrip ==
  \A pair \in GoodPairs :
    (/\ rpc = "done"
     /\ modelResult.kind = "resolve"
     /\ JsonParse(C7_Output).ok
     /\ JsonParse(C7_Output).v = Obj(PairMembers(pair)))
      => /\ outcome.kind = "response"
         /\ outcome.status = 200
         /\ ResponseData = Obj(<<Member(<<"reply">>, Str(pair[1])),
                                 Member(<<"game">>, Str(pair[2]))>>)

\* A reply holding a fence, a line break and a quote came back unchanged.
C7_Witness ==
  /\ rpc = "done"
  /\ modelResult.kind = "resolve"
  /\ JsonParse(C7_Output).ok
  /\ outcome.status = 200
  /\ GetProp(ResponseData, <<"reply">>).t = "string"
  /\ \E i, j, k \in 1..Len(GetProp(ResponseData, <<"reply">>).v) :
       /\ GetProp(ResponseData, <<"reply">>).v[i] = FENCE
       /\ GetProp(ResponseData, <<"reply">>).v[j] = NL
       /\ GetProp(ResponseData, <<"reply">>).v[k] = Q

\* C8: without the credential every request is answered with the fixed status
\* 500 configuration error, the body unread and the model never called.
C8_ConfigurationErrorFirst ==
  ~apiKey =>
    /\ ~bodyRead
    /\ modelCalls = 0
    /\ rpc # "awaitModel"
    /\ rpc = "done" => IsErrorResponse(500, ApiKeyError)

\* Without the credential, a request with a usable prompt got the 500.
C8_Witness ==
  /\ ~apiKey
  /\ rpc = "done"
  /\ ParsedRequest.ok
  /\ ~IsBlank(RequestPrompt)
  /\ RequestPrompt.t = "string"
  /\ outcome.status = 500

\* C9: the preview is the placeholder exactly while no generation has
\* succeeded in the session.
C9_PlaceholderUntilSuccess ==
  /\ successes = 0 => PreviewSource = Placeholder
  /\ successes > 0 => PreviewSource # Placeholder

\* C10: every step keeps the messages as a prefix and adds at most one, and a
\* step that records an error leaves the messages, the user's last, as they
\* are.
C10_AppendOnly ==
  [][/\ IsPrefix(messages, messages')
     /\ Len(messages') <= Len(messages) + 1
     /\ (isStreaming /\ error' # Null) =>
          /\ messages' = messages
          /\ messages # <<>>
          /\ messages[Len(messages)].role = "user"]_vars

\* After a success, a later submission failed and its user message stayed.
C10_Witness ==
  /\ ~isStreaming
  /\ error # Null
  /\ Len(messages) = 3
  /\ messages[2].role = "assistant"
  /\ messages[3].role = "user"

\* Every unit of the text is whitespace (an empty text included).
AllWhitespace(text) == \A i \in 1..Len(text) : text[i] \in Whitespace

\* C11: a submission of an empty or whitespace-only input changes none of
\* messages, input, gameHtml, isStreaming and error, and sends no request.
C11_BlankSubmitIsNoOp ==
  [][(submits' + ignored' # submits + ignored /\ AllWhitespace(input)) =>
       /\ UNCHANGED <<messages, input, gameHtml, isStreaming, error>>
       /\ UNCHANGED <<request, rpc, outstanding, submits>>]_vars

\* A whitespace-only input was submitted and is still in the textarea.
C11_Witness ==
  /\ ignored > 0
  /\ input # <<>>
  /\ AllWhitespace(input)
  /\ rpc = "idle"

\* C12: an invocation calls the model at most once, exactly once when it gets
\* past validation; whatever the call settles with, the handler returns at
\* once without another call, a failure as a status 500 error; a new
\* invocation starts with fresh locals, and the configuration never changes.
C12_OneCallNoRetry ==
  /\ [](modelCalls <= 1)
  /\ []((rpc = "awaitModel" \/ modelResult.kind # "none") => modelCalls = 1)
  /\ [](rpc = "pending" =>
         /\ ~bodyRead /\ modelCalls = 0 /\ history = <<>>
         /\ userInstruction = <<>> /\ modelResult.kind = "none"
         /\ outcome.kind = "none")
  /\ [][(modelResult' # modelResult /\ modelResult'.kind # "none") =>
          /\ rpc' = "done"
          /\ modelCalls' = modelCalls
          /\ outcome'.kind = "response"
          /\ outcome'.status \in {200, 500}]_vars
  /\ [][apiKey' = apiKey]_vars

\* The model was called once, its output was unusable, and the handler
\* answered with status 500.
C12_Witness ==
  /\ rpc = "done"
  /\ modelCalls = 1
  /\ modelResult.kind = "resolve"
  /\ outcome.status = 500

\* t is p without its leading and trailing whitespace.
C13_IsTrimOf(t, p) ==
  \E i \in 1..(Len(p) + 1), j \in 0..Len(p) :
    /\ i <= j + 1
    /\ t = SubSeq(p, i, j)
    /\ \A k \in 1..Len(p) : (k < i \/ k > j) => p[k] \in Whitespace
    /\ t # <<>> => (t[1] \notin Whitespace /\ t[Len(t)] \notin Whitespace)

\* The text t opens with the text prefix.
C13_StartsWith(t, prefix) ==
  Len(prefix) <= Len(t) /\ SubSeq(t, 1, Len(prefix)) = prefix

\* The instruction's text after its transcript block, if it has one.
C13_AfterTranscript ==
  IF C13_StartsWith(userInstruction, <<"Conversation so far:", NL>> \o history \o <<NL, NL>>)
  THEN SubSeq(userInstruction, Len(history) + 5, Len(userInstruction))
  ELSE userInstruction

\* C13: the instruction sent to the model is the transcript block, the
\* latest-request block with the trimmed prompt and the directive, in this
\* order; the transcript block is there exactly when the supplied conversation
\* has an entry.
C13_InstructionLayout ==
  modelCalls = 1 =>
    LET supplied == RequestConversation.t = "array" /\ RequestConversation.v # <<>>
    IN
      /\ supplied <=>
           /\ history # <<>>
           /\ C13_StartsWith(userInstruction,
                             <<"Conversation so far:", NL>> \o history \o <<NL, NL>>)
      /\ ~supplied => userInstruction[1] = "Latest request:"
      /\ \E i \in 1..Len(C13_AfterTranscript) :
           /\ C13_IsTrimOf(SubSeq(C13_AfterTranscript, 3, i), RequestPrompt.v)
           /\ C13_AfterTranscript
                = <<"Latest request:", NL>> \o SubSeq(C13_AfterTranscript, 3, i)
                    \o <<NL, NL>> \o Directive

\* An instruction was sent for a request with no conversation and a prompt
\* that needed trimming.
C13_Witness ==
  /\ modelCalls = 1
  /\ RequestConversation.t = "undefined"
  /\ RequestPrompt.v # Trim(RequestPrompt.v)
  /\ userInstruction[1] = "Latest request:"

\* The step hands a successful response to the client.
C14_SuccessStep ==
  /\ rpc = "done"
  /\ outcome.kind = "response"
  /\ outcome.status = 200
  /\ rpc' = "idle"
  /\ error' = Null

\* C14: the game HTML is empty until a success; a success sets it to the
\* response's game field and appends one assistant message with the response's
\* reply; every other step leaves the game HTML as it is.
C14_GameIsLastSuccess ==
  /\ [](successes = 0 => gameHtml = Str(<<>>))
  /\ [][IF C14_SuccessStep
         THEN /\ gameHtml' = GetProp(ResponseData, <<"game">>)
              /\ Len(messages') = Len(messages) + 1
              /\ SubSeq(messages', 1, Len(messages)) = messages
              /\ messages'[Len(messages')].role = "assistant"
              /\ messages'[Len(messages')].content = GetProp(ResponseData, <<"reply">>)
         ELSE gameHtml' = gameHtml]_vars

\* A second success replaced the first success's document by another one.
C14_Witness ==
  /\ successes = 2
  /\ Len(messages) = 4
  /\ messages[2].content = Str(<<"a">>)
  /\ messages[4].content = Str(<<"b">>)
  /\ gameHtml = Str(<<SP>>)

\* C15: isStreaming is true exactly while the relay call is outstanding; it
\* falls only in a step that ends the call, with the response or an error; and
\* when every call settles, each submission is followed by a state with
\* isStreaming false in which the submit button is enabled.
C15_SubmittingWhileOutstanding ==
  /\ [](isStreaming <=> rpc # "idle")
  /\ [](isStreaming <=> outstanding = 1)
  /\ [][(isStreaming /\ ~isStreaming') =>
          /\ rpc' = "idle"
          /\ outstanding' = outstanding - 1
          /\ rpc = "done" \/ error' # Null]_vars
  /\ [][(~isStreaming /\ isStreaming') => submits' = submits + 1]_vars
  /\ isStreaming ~> (~isStreaming /\ SubmitEnabled)

\* A submission failed, its retry was accepted and has failed as well, and the
\* button is enabled again.
C15_Witness ==
  /\ submits = 2
  /\ successes = 0
  /\ ~isStreaming
  /\ SubmitEnabled
  /\ error # Null
  /\ Len(messages) = 2

\* C16: when the client receives a non-success response, the error it records
\* is the error message that response carries.
C16_ErrorIsResponseMessage ==
  [][(/\ rpc = "done"
      /\ outcome.kind = "response"
      /\ outcome.status # 200
      /\ rpc' = "idle"
      /\ error' # Str(FetchError)) =>
       error' = GetProp(ResponseData, <<"error">>)]_vars

\* C17: the step that sends a request appends the user message with the
\* trimmed input, empties the input, clears the error and raises isStreaming;
\* in every state isStreaming and a recorded error are not both set.
C17_SubmittingHasNoError ==
  /\ [](isStreaming => error = Null)
  /\ [](error # Null => error.t = "string" /\ error.v # <<>>)
  /\ [][(rpc = "idle" /\ rpc' = "pending") =>
          /\ Len(messages') = Len(messages) + 1
          /\ SubSeq(messages', 1, Len(messages)) = messages
          /\ messages'[Len(messages')].role = "user"
          /\ \E i, j \in 1..Len(input) :
               /\ messages'[Len(messages')].content = Str(SubSeq(input, i, j))
               /\ C13_IsTrimOf(SubSeq(input, i, j), input)
          /\ input' = <<>>
          /\ error' = Null
          /\ isStreaming']_vars

\* A submission failed and left its error; the next one is in flight with the
\* error cleared.
C17_Witness ==
  /\ isStreaming
  /\ error = Null
  /\ Len(messages) = 2
  /\ messages[1].role = "user"
  /\ messages[2].role = "user"

\* The number of line breaks in the text.
C18_Breaks(text) == Cardinality({i \in 1..Len(text) : text[i] = NL})

\* C18: a request of the client carries all of its messages, oldest first, as
\* the conversation, the last one the user message whose content is the
\* request's prompt; the transcript the relay builds from it is not empty, is
\* part of the instruction and ends with the line of that prompt.
C18_ClientSendsWholeHistory ==
  rpc # "idle" =>
    /\ ParsedRequest.ok
    /\ RequestConversation.t = "array"
    /\ LET conv == RequestConversation.v
           n == Len(conv)
       IN
         /\ n > 0
         /\ n = Len(messages)
         /\ \A i \in 1..n :
              /\ GetProp(conv[i], <<"role">>) = Str(<<messages[i].role>>)
              /\ GetProp(conv[i], <<"content">>) = messages[i].content
         /\ GetProp(conv[n], <<"role">>) = Str(<<"user">>)
         /\ GetProp(conv[n], <<"content">>) = RequestPrompt
         /\ modelCalls = 1 =>
              LET line == <<"Player", ":", SP>> \o RequestPrompt.v IN
                /\ history # <<>>
                /\ C13_StartsWith(userInstruction,
                                  <<"Conversation so far:", NL>> \o history \o <<NL, NL>>)
                /\ Len(line) <= Len(history)
                /\ SubSeq(history, Len(history) - Len(line) + 1, Len(history)) = line
                /\ C18_Breaks(history) + 1 = C3_Min(n, HistoryWindow)

\* The relay built the transcript for a request of the client that carried
\* more messages than the relay's window holds.
C18_Witness ==
  /\ rpc = "awaitModel"
  /\ outstanding = 1
  /\ modelCalls = 1
  /\ Len(messages) > HistoryWindow
  /\ Len(RequestConversation.v) = Len(messages)

\* The number of messages of the role.
C19_Count(role) ==
  Cardinality({i \in 1..Len(messages) : messages[i].role = role})

\* C19: there are as many user messages as accepted submissions and as many
\* assistant messages as successful responses received; assistant messages do
\* not outnumber user messages, and the first message is a user message.
C19_MessageCounts ==
  /\ \A i \in 1..Len(messages) : messages[i].role \in {"user", "assistant"}
  /\ C19_Count("user") = submits
  /\ C19_Count("assistant") = successes
  /\ C19_Count("assistant") <= C19_Count("user")
  /\ messages # <<>> => messages[1].role = "user"

\* A second submission is in flight after a first one that succeeded.
C19_Witness ==
  /\ isStreaming
  /\ submits = 2
  /\ successes = 1
  /\ Len(messages) = 3
  /\ messages[2].role = "assistant"
====
